---- MODULE Spec2Model ----
(***************************************************************************)
(* Model of packages/speech/scheduler-generator/index.js, canonical        *)
(* revision (lines 1-222): the per-user reminder-manifest generator.       *)
(*                                                                         *)
(* main(args) is an async function.  Each `await` is a point where the     *)
(* function is suspended, so the synchronous code between two awaits is    *)
(* one atomic action of the model.  External collaborators (the data       *)
(* store, the speech service, the object store) answer each call with one  *)
(* of the outcomes the client libraries can produce.                       *)
(*                                                                         *)
(* Encodings                                                               *)
(*   - a JS string that the code parses is a TLA+ string in the state and  *)
(*     a tuple of one-character strings (Chars) when the code looks into   *)
(*     it (split, parseInt, toFormat);                                     *)
(*   - a JS number is <<n>>, NaN is <<>> (NaN is different from every      *)
(*     number and from itself under ===);                                  *)
(*   - instants are Unix seconds; a luxon DateTime is a record            *)
(*     [valid, zone, ts]; only fixed-offset zones are modelled.            *)
(***************************************************************************)
EXTENDS Integers, Sequences, FiniteSets, TLC

----------------------------------------------------------------------------
(* Bounds of the model *)

\* invocations of main started in one behaviour
MaxRuns == 2
\* event rows the environment inserts into the store in one behaviour
MaxAdds == 1
\* external calls that fail in one behaviour
MaxFaults == 2

----------------------------------------------------------------------------
(* Program constants *)

\* .limit(5) of the events query
EVENT_LIMIT == 5
\* version field of the manifest payload
MANIFEST_VERSION == 52

----------------------------------------------------------------------------
(* JS values *)

\* undefined, where a string (a tuple of characters) is expected
Undefined == <<"undefined">>
NaN == <<>>
Num(n) == <<n>>
IsNaN(x) == x = NaN
Val(x) == x[1]

\* a === b on numbers: NaN equals nothing, itself included
StrictEq(a, b) == ~IsNaN(a) /\ ~IsNaN(b) /\ a = b

Digits == <<"0", "1", "2", "3", "4", "5", "6", "7", "8", "9">>
IsDigit(c) == \E i \in 1..10 : Digits[i] = c
DigitVal(c) == (CHOOSE i \in 1..10 : Digits[i] = c) - 1

\* the characters of the strings the store can hold
Chars(s) ==
    CASE s = "07:00" -> <<"0", "7", ":", "0", "0">>
      [] s = "07:15" -> <<"0", "7", ":", "1", "5">>
      [] s = "08:00" -> <<"0", "8", ":", "0", "0">>
      [] s = "08:30" -> <<"0", "8", ":", "3", "0">>
      [] s = "09:00" -> <<"0", "9", ":", "0", "0">>
      [] s = "09:30" -> <<"0", "9", ":", "3", "0">>
      [] s = "12:00" -> <<"1", "2", ":", "0", "0">>
      [] s = "12:30" -> <<"1", "2", ":", "3", "0">>
      [] s = "14:30" -> <<"1", "4", ":", "3", "0">>
      [] s = "20:00" -> <<"2", "0", ":", "0", "0">>
      [] s = "25:00" -> <<"2", "5", ":", "0", "0">>
      [] s = "soon" -> <<"s", "o", "o", "n">>
      [] s = "ab:cd" -> <<"a", "b", ":", "c", "d">>
      [] s = "" -> <<>>

\* the order of characters in the collation of the store
Alphabet ==
    <<"0", "1", "2", "3", "4", "5", "6", "7", "8", "9", ":",
      "a", "b", "c", "d", "n", "o", "s">>
CharRank(c) == CHOOSE i \in 1..Len(Alphabet) : Alphabet[i] = c

RECURSIVE LexLeqFrom(_, _, _)
LexLeqFrom(a, b, i) ==
    IF i > Len(a) THEN TRUE
    ELSE IF i > Len(b) THEN FALSE
    ELSE IF a[i] = b[i] THEN LexLeqFrom(a, b, i + 1)
    ELSE CharRank(a[i]) < CharRank(b[i])

\* a <= b in the ascending order of a text column
StrLeq(a, b) == LexLeqFrom(Chars(a), Chars(b), 1)

\* String.prototype.split(':') : the pieces between the separators
RECURSIVE SplitFrom(_, _, _)
SplitFrom(cs, i, cur) ==
    IF i > Len(cs) THEN <<cur>>
    ELSE IF cs[i] = ":" THEN <<cur>> \o SplitFrom(cs, i + 1, <<>>)
    ELSE SplitFrom(cs, i + 1, Append(cur, cs[i]))

Split(cs) == SplitFrom(cs, 1, <<>>)

\* parts[i] of a JS array: undefined past the end
At(parts, i) == IF i <= Len(parts) THEN parts[i] ELSE Undefined

\* a || '0' : the empty string and undefined are falsy
OrZero(x) == IF x = Undefined \/ x = <<>> THEN <<"0">> ELSE x

\* parseInt(x): the value of the longest leading run of decimal digits,
\* NaN when there is none (the inputs carry no sign, blank or 0x prefix)
RECURSIVE DigitsValue(_, _, _)
DigitsValue(cs, i, acc) ==
    IF i > Len(cs) \/ ~IsDigit(cs[i]) THEN acc
    ELSE DigitsValue(cs, i + 1, acc * 10 + DigitVal(cs[i]))

ParseInt(x) ==
    IF x = Undefined \/ Len(x) = 0 \/ ~IsDigit(x[1]) THEN NaN
    ELSE Num(DigitsValue(x, 1, 0))

\* two-digit rendering of the HH and mm tokens of toFormat
Pad2(n) == Digits[((n \div 10) % 10) + 1] \o Digits[(n % 10) + 1]

----------------------------------------------------------------------------
(* luxon DateTime, fixed-offset zones *)

MINUTE == 60
HOUR == 60 * MINUTE
DAY == 24 * HOUR

IsValidZone(z) == z \in {"Etc/GMT+6", "UTC"}

\* offset of the zone from UTC, in seconds
ZoneOffset(z) == IF z = "Etc/GMT+6" THEN 0 - 6 * HOUR ELSE 0

\* DateTime.now().setZone(z) at instant ts
SetZone(ts, z) == [valid |-> IsValidZone(z), zone |-> z, ts |-> ts]

LocalSeconds(dt) == dt.ts + ZoneOffset(dt.zone)
LocalDay(dt) == LocalSeconds(dt) \div DAY

\* dt.hour : NaN on an invalid DateTime
HourOf(dt) == IF dt.valid THEN Num((LocalSeconds(dt) % DAY) \div HOUR) ELSE NaN

\* the calendar dates of the days the clock of the model can show
DateStr(day) ==
    CASE day = 0 -> "1970-01-01"
      [] day = 1 -> "1970-01-02"
      [] day = 2 -> "1970-01-03"
      [] day = 3 -> "1970-01-04"
      [] OTHER -> "1969-12-31"

\* dt.toFormat('yyyy-MM-dd')
ToFormatDate(dt) == IF dt.valid THEN DateStr(LocalDay(dt)) ELSE "Invalid DateTime"

\* dt.set({hour: h, minute: m, ...}) throws InvalidArgumentError on a NaN
\* unit of a valid DateTime (an invalid DateTime is returned unchanged)
SetThrows(dt, h, m) == dt.valid /\ (IsNaN(h) \/ IsNaN(m))

\* new Date().setHours(h, m, 0, 0) of the oldest revision: the hour and
\* minute are set on the date of the host process, whose zone is UTC
SetHoursOfHostDate(dt, h, m) ==
    [dt EXCEPT !.ts = (dt.ts \div DAY) * DAY + Val(h) * HOUR + Val(m) * MINUTE]

\* dt.set({hour: h, minute: m, second: 0, millisecond: 0}) : the units
\* are not range-checked, an hour of 25 rolls over into the next day
SetHourMinuteZero(dt, h, m) ==
    IF ~dt.valid THEN dt
    ELSE [dt EXCEPT !.ts = LocalDay(dt) * DAY + Val(h) * HOUR + Val(m) * MINUTE
                           - ZoneOffset(dt.zone)]

\* dt.set({hour: h, minute: m}) : the seconds are kept
SetHourMinute(dt, h, m) ==
    IF ~dt.valid THEN dt
    ELSE [dt EXCEPT !.ts = LocalDay(dt) * DAY + Val(h) * HOUR + Val(m) * MINUTE
                           + (LocalSeconds(dt) % MINUTE) - ZoneOffset(dt.zone)]

\* dt.plus({days: 1})
PlusOneDay(dt) == IF dt.valid THEN [dt EXCEPT !.ts = @ + DAY] ELSE dt

\* Math.floor(dt.toSeconds())
ToSeconds(dt) == IF dt.valid THEN Num(dt.ts) ELSE NaN

\* dt.toFormat('HH:mm'), without the conversion to UTC
ToLocalHHmm(dt) ==
    IF dt.valid
    THEN Pad2((LocalSeconds(dt) % DAY) \div HOUR) \o ":"
            \o Pad2((LocalSeconds(dt) % HOUR) \div MINUTE)
    ELSE "Invalid DateTime"

\* dt.toUTC().toFormat('HH:mm')
ToUtcHHmm(dt) ==
    IF dt.valid
    THEN Pad2((dt.ts % DAY) \div HOUR) \o ":" \o Pad2((dt.ts % HOUR) \div MINUTE)
    ELSE "Invalid DateTime"

----------------------------------------------------------------------------
(* The deployment: process.env, the store's tables, the event rows *)

Procs == {1, 2}

\* a complete configuration; the endpoint is held as its host labels
FullEnv ==
    [SUPABASE_URL |-> "https://db.example", SUPABASE_KEY |-> "sb-key",
     SPACES_ENDPOINT |-> <<"sfo3", ".spaces.example">>, SPACES_KEY |-> "sp-key",
     SPACES_SECRET |-> "sp-secret", SPACES_BUCKET |-> "remindaudio",
     AZURE_KEY |-> "az-key", AZURE_REGION |-> "westus"]

EnvChoices ==
    {FullEnv,
     [FullEnv EXCEPT !.SUPABASE_KEY = ""],
     [FullEnv EXCEPT !.SPACES_KEY = ""],
     [FullEnv EXCEPT !.SPACES_BUCKET = ""],
     [FullEnv EXCEPT !.AZURE_KEY = ""]}

\* the first row of user_settings: well formed, or with one defect
User1 == [user_id |-> "u1", fetch_time |-> "07:00", timezone |-> "Etc/GMT+6"]

User1Defects ==
    {[User1 EXCEPT !.timezone = "Mars/Phobos"],
     [User1 EXCEPT !.fetch_time = "ab:cd"],
     [User1 EXCEPT !.fetch_time = ""],
     [User1 EXCEPT !.timezone = ""]}

\* the first row with a fetch time late in the local day
User1Late == [User1 EXCEPT !.fetch_time = "20:00"]

User2 == [user_id |-> "u2", fetch_time |-> "14:30", timezone |-> "UTC"]

\* the invocation arguments: a scheduled trigger, or {user_id: U}
ArgChoices ==
    {[trigger |-> "schedule"], [user_id |-> "u1"], [user_id |-> "u2"]}

\* the instants at which main is invoked: 13:20:17 and 14:20:17 UTC of
\* 1970-01-02 (07:20:17 and 08:20:17 in Etc/GMT+6)
ClockChoices == {DAY + 13 * HOUR + 20 * MINUTE + 17, DAY + 14 * HOUR + 20 * MINUTE + 17}

\* audio_url of a row that has none (null)
NoUrl == [null |-> TRUE]

Row(id, uid, date, st, en, msg) ==
    [id |-> id, user_id |-> uid, date |-> date, start_time |-> st, end_time |-> en,
     message |-> msg, audio_url |-> NoUrl, processed |-> FALSE]

\* the rows the events table can hold
EventPool ==
    {Row("e1", "u1", "1970-01-02", "09:00", "09:30", "take the pills"),
     Row("e2", "u1", "1970-01-02", "07:00", "07:15", "wake up"),
     Row("e3", "u1", "1970-01-02", "12:00", "12:30", "lunch"),
     Row("e4", "u2", "1970-01-02", "08:00", "08:30", "call home"),
     Row("e5", "u1", "1970-01-02", "12:00", "25:00", "long walk"),
     Row("e6", "u1", "1970-01-02", "soon", "12:30", "water the plants"),
     Row("e7", "u1", "1970-01-03", "09:00", "09:30", "tomorrow's pills")}

EventIds == {r.id : r \in EventPool}
PoolRow(id) == CHOOSE r \in EventPool : r.id = id

\* the contents of the events table when a behaviour starts
MainStore == {"e1", "e3", "e4"}
StoreChoices ==
    {MainStore, {"e4", "e7"}, {"e1", "e5", "e4"}, {"e1", "e6", "e4"}}

\* the deployments a behaviour can start from: the well-formed one with
\* each store, and each defect of the configuration or of the first user
\* with the main store
Deployments ==
    {[env |-> FullEnv, user1 |-> User1, store |-> ids] : ids \in StoreChoices}
    \cup {[env |-> FullEnv, user1 |-> u, store |-> MainStore] :
             u \in User1Defects \cup {User1Late}}
    \cup {[env |-> e, user1 |-> User1, store |-> MainStore] : e \in EnvChoices}

\* the row the application can insert later: it starts before the others
AddableIds == {"e2"}

----------------------------------------------------------------------------
(* State *)

VARIABLES
    env,        \* process.env of the deployment
    users,      \* the user_settings table, in the order the query returns it
    events,     \* the events table: id -> row
    objects,    \* the bucket: key -> body
    clock,      \* the instant DateTime.now() returns, Unix seconds
    inv,        \* per invocation of main: its locals and the await it is at
    trace,      \* per invocation: the external calls it has made (history)
    rendered,   \* ids of the events whose audio was synthesized and uploaded (history)
    runs,       \* invocations started
    adds,       \* rows inserted by the environment
    faults      \* external calls that have failed

vars ==
    <<env, users, events, objects, clock, inv, trace, rendered, runs, adds, faults>>

NoDateTime == [valid |-> FALSE, zone |-> "", ts |-> 0]
NoBody == [kind |-> "none"]
NoRet == [pending |-> TRUE]

IdleInv ==
    [pc |-> "idle", args |-> [trigger |-> "schedule"], users |-> <<>>, ui |-> 0,
     userNow |-> NoDateTime, events |-> <<>>, ei |-> 0, seq |-> 0,
     manifestEvents |-> <<>>, manifestSrc |-> <<>>, audioBuffer |-> NoBody,
     mp3Filename |-> "", publicUrl |-> NoUrl, payload |-> NoBody,
     results |-> <<>>, ret |-> NoRet, abort |-> "none"]

\* the history of one invocation: the users that passed the gate, the users
\* whose event list was empty or missing, the events loaded as processed
\* (with the audio_url loaded), the events for which synthesis, upload and
\* update were called, those whose synthesis or upload failed, those whose
\* update failed, the users whose manifest upload was called / succeeded,
\* the synthesis calls in the order they were made, the keys of the manifest
\* uploads that succeeded in the order they were made, the event lists
\* loaded with at least one row (the user and the ids), and the bucket,
\* the processed rows and `rendered` when main was called
NoTrace ==
    [gate |-> {}, empty |-> {}, cached |-> {}, synth |-> {}, put |-> {}, update |-> {},
     failed |-> {}, updFailed |-> {}, publish |-> {}, published |-> {},
     synthLog |-> <<>>, manifests |-> <<>>, loaded |-> {},
     objectsAtStart |-> <<>>, processedAtStart |-> {}, renderedAtStart |-> {}]

Init ==
    /\ \E d \in Deployments :
          /\ env = d.env
          /\ users = <<d.user1, User2>>
          /\ events = [id \in d.store |-> PoolRow(id)]
    /\ objects = [k \in {} |-> NoBody]
    /\ clock = 0
    /\ inv = [p \in Procs |-> IdleInv]
    /\ trace = [p \in Procs |-> NoTrace]
    /\ rendered = {}
    /\ runs = 0
    /\ adds = 0
    /\ faults = 0

----------------------------------------------------------------------------
(* Locals of an invocation *)

User(r) == r.users[r.ui]
Event(r) == r.events[r.ei]

\* line 59: parseInt(user.fetch_time.split(':')[0])
TargetFetchHour(user) == ParseInt(At(Split(Chars(user.fetch_time)), 1))

\* line 170: parseInt(user.fetch_time.split(':')[1] || '0')
TargetFetchMinute(user) == ParseInt(OrZero(At(Split(Chars(user.fetch_time)), 2)))

\* line 63, if the trigger were not tied to the user of the record
IsManualTriggerAnyUser(args, user) == "user_id" \in DOMAIN args

\* line 63: args.user_id === user.user_id
IsManualTrigger(args, user) ==
    "user_id" \in DOMAIN args /\ args.user_id = user.user_id

\* line 49, if no record were taken as incomplete
MissingNever(user) == FALSE

\* line 49: !user.fetch_time || !user.timezone
MissingTimeSettings(user) == user.fetch_time = "" \/ user.timezone = ""

\* the gate without the manual trigger (the superseded revision, line 288)
ShouldSkipHourOnly(args, user, now) ==
    ~StrictEq(HourOf(now), TargetFetchHour(user))

\* line 67: !isManualTrigger && currentLocalHour !== targetFetchHour
ShouldSkip(args, user, now) ==
    ~IsManualTrigger(args, user) /\ ~StrictEq(HourOf(now), TargetFetchHour(user))

\* line 95, if the list were never taken as empty
SkipNever(missing, n) == FALSE

\* line 95: !events || events.length === 0
SkipForNoEvents(missing, n) == missing \/ n = 0

\* line 109, if the flag were read again from the row in the store
NeedsAudioOfStoredRow(event) == ~events[event.id].processed

\* line 109, if the processed flag were not read
NeedsAudioAlways(event) == TRUE

\* line 109: !event.processed
NeedsAudio(event) == ~event.processed

\* line 113: `${user.user_id}_0${seq}.mp3`
Mp3Filename(uid, seq) == uid \o "_0" \o ToString(seq) \o ".mp3"

\* line 186, if the key did not carry the user id
JsonFilenameShared(uid) == "status.json"

\* line 186: `${user.user_id}_status.json`
JsonFilename(uid) == uid \o "_status.json"

\* lines 124-127, if the URL did not carry the key of the upload
PublicUrlOfLatest(e, file) ==
    [scheme |-> "https", host |-> e.SPACES_ENDPOINT, path |-> "latest.mp3"]

\* lines 124-127: the public URL of an uploaded object
PublicUrl(e, file) ==
    IF e.SPACES_ENDPOINT[1] = e.SPACES_BUCKET
    THEN [scheme |-> "https", host |-> e.SPACES_ENDPOINT, path |-> file]
    ELSE [scheme |-> "https", host |-> <<e.SPACES_BUCKET, ".">> \o e.SPACES_ENDPOINT,
          path |-> file]

----------------------------------------------------------------------------
(* The events query, lines 84-90 *)

MatchingIds(rows, uid, date) ==
    {id \in DOMAIN rows : rows[id].user_id = uid /\ rows[id].date = date}

\* the orders of the matching rows that ascend in start_time
OrderedIds(rows, ids) ==
    {f \in [1..Cardinality(ids) -> ids] :
        /\ \A i, j \in 1..Cardinality(ids) : i # j => f[i] # f[j]
        /\ \A i, j \in 1..Cardinality(ids) :
              i < j => StrLeq(rows[f[i]].start_time, rows[f[j]].start_time)}

Limit(f, n) == [i \in 1..(IF Len(f) < n THEN Len(f) ELSE n) |-> f[i]]

\* the lists the query can return for a user and a date
QueryResults(rows, uid, date) ==
    {[i \in DOMAIN Limit(f, EVENT_LIMIT) |-> rows[Limit(f, EVENT_LIMIT)[i]]] :
        f \in OrderedIds(rows, MatchingIds(rows, uid, date))}

----------------------------------------------------------------------------
(* The synchronous code between awaits *)

\* an exception leaves main: the promise main returned is rejected
Reject(r, cause) ==
    [r EXCEPT !.pc = "rejected", !.abort = cause, !.audioBuffer = NoBody,
              !.mp3Filename = "", !.publicUrl = NoUrl]

\* lines 167-194: the next fetch time, the payload, and the putObject call
Assemble(r, now) ==
    LET user == User(r)
        h == TargetFetchHour(user)
        m == TargetFetchMinute(user)
        tomorrow == PlusOneDay(r.userNow)
    IN  IF SetThrows(tomorrow, h, m) THEN Reject(r, "fetch_time")
        ELSE [r EXCEPT
                !.pc = "publish",
                !.payload =
                    [kind |-> "json", version |-> MANIFEST_VERSION,
                     user_id |-> user.user_id, generated_at |-> now,
                     settings |-> [fetch_time |-> ToUtcHHmm(SetHourMinute(tomorrow, h, m)),
                                   timezone |-> user.timezone],
                     event_count |-> Len(r.manifestEvents),
                     events |-> r.manifestEvents]]

\* line 105: the event loop goes on with the event at r.ei, or is over
LoopEvents(r, now) ==
    IF r.ei <= Len(r.events) THEN [r EXCEPT !.pc = "event"] ELSE Assemble(r, now)

\* the end of an iteration, if the loop stayed on the same event
SameEventAgain(r, now) ==
    LoopEvents([r EXCEPT !.audioBuffer = NoBody, !.mp3Filename = "",
                         !.publicUrl = NoUrl], now)

\* the end of one iteration of the event loop (also `continue`, line 136)
NextEvent(r, now) ==
    LoopEvents([r EXCEPT !.ei = @ + 1, !.audioBuffer = NoBody, !.mp3Filename = "",
                         !.publicUrl = NoUrl], now)

\* lines 140-164: the timestamps of the event and its manifest entry
PushEvent(r, now) ==
    LET event == Event(r)
        startParts == Split(Chars(event.start_time))
        endParts == Split(Chars(event.end_time))
        sh == ParseInt(At(startParts, 1))
        sm == ParseInt(At(startParts, 2))
        eh == ParseInt(At(endParts, 1))
        em == ParseInt(At(endParts, 2))
    IN  IF SetThrows(r.userNow, sh, sm) \/ SetThrows(r.userNow, eh, em)
        THEN Reject(r, "event_time")
        ELSE NextEvent(
               [r EXCEPT
                  !.manifestEvents =
                      Append(@, [sequence |-> r.seq,
                                 alertStart |-> ToSeconds(SetHourMinuteZero(r.userNow, sh, sm)),
                                 alertEnd |-> ToSeconds(SetHourMinuteZero(r.userNow, eh, em)),
                                 audio_url |-> r.publicUrl]),
                  !.manifestSrc = Append(@, event.id),
                  !.seq = @ + 1],
               now)

\* `continue` of the user loop: on to the next user
NextUserRecord(r) ==
    [r EXCEPT !.pc = "user", !.ui = @ + 1, !.userNow = NoDateTime, !.events = <<>>,
              !.ei = 0, !.seq = 0, !.manifestEvents = <<>>, !.manifestSrc = <<>>,
              !.payload = NoBody]

----------------------------------------------------------------------------
(* Actions: one per await of main *)

Quiet(p) == inv[p].pc \in {"idle", "done", "rejected"}

\* an external call fails / succeeds
Fault == faults < MaxFaults /\ faults' = faults + 1
NoFault == UNCHANGED faults

\* lines 6-37: main is called at instant t; the configuration is checked
\* and the user_settings query is sent
Start(p, a, t) ==
    /\ Quiet(p)
    /\ runs < MaxRuns
    /\ t >= clock
    /\ clock' = t
    /\ runs' = runs + 1
    /\ trace' = [trace EXCEPT ![p] =
                   [NoTrace EXCEPT
                      !.objectsAtStart = objects,
                      !.processedAtStart = {id \in DOMAIN events : events[id].processed},
                      !.renderedAtStart = rendered]]
    /\ inv' = [inv EXCEPT ![p] =
                 IF env.SUPABASE_URL = "" \/ env.SUPABASE_KEY = ""
                 THEN [IdleInv EXCEPT
                         !.pc = "done", !.args = a,
                         !.ret = [error |-> "Configuration Error: Missing Supabase Secrets"]]
                 ELSE IF env.SPACES_ENDPOINT = <<>> \/ env.SPACES_KEY = ""
                 THEN [IdleInv EXCEPT
                         !.pc = "done", !.args = a,
                         !.ret = [error |-> "Configuration Error: Missing Spaces Secrets"]]
                 ELSE [IdleInv EXCEPT !.pc = "users", !.args = a]]
    /\ UNCHANGED <<env, users, events, objects, rendered, adds, faults>>

\* lines 35-46: the user_settings query answers
UsersLoaded(p) ==
    /\ inv[p].pc = "users"
    /\ \/ /\ inv' = [inv EXCEPT ![p] = [@ EXCEPT !.pc = "user", !.users = users, !.ui = 1]]
          /\ NoFault
       \/ \* the store answers with an error: userError is set
          /\ inv' = [inv EXCEPT ![p] = [@ EXCEPT !.pc = "done",
                                                 !.ret = [error |-> "settings read failed"]]]
          /\ Fault
       \/ \* the request itself fails
          /\ inv' = [inv EXCEPT ![p] = Reject(@, "users_read")]
          /\ Fault
    /\ UNCHANGED <<env, users, events, objects, clock, trace, rendered, runs, adds>>

\* lines 48-90: the head of the user loop, up to the events query
NextUser(p) ==
    LET r == inv[p]
        user == User(r)
        userNow == SetZone(clock, user.timezone)
    IN  /\ r.pc = "user"
        /\ r.ui <= Len(r.users)
        /\ IF MissingTimeSettings(user) \/ ShouldSkip(r.args, user, userNow)
           THEN /\ inv' = [inv EXCEPT ![p] = NextUserRecord(r)]
                /\ UNCHANGED trace
           ELSE /\ inv' = [inv EXCEPT ![p] = [r EXCEPT !.pc = "events", !.userNow = userNow]]
                /\ trace' = [trace EXCEPT ![p].gate = @ \cup {user.user_id}]
        /\ UNCHANGED <<env, users, events, objects, clock, rendered, runs, adds, faults>>

\* lines 84-103: the events query answers
EventsLoaded(p) ==
    LET r == inv[p]
        user == User(r)
    IN  /\ r.pc = "events"
        /\ \/ \E list \in QueryResults(events, user.user_id, ToFormatDate(r.userNow)) :
                /\ NoFault
                /\ inv' = [inv EXCEPT ![p] =
                             IF SkipForNoEvents(FALSE, Len(list))
                             THEN NextUserRecord(r)
                             ELSE LoopEvents(
                                    [r EXCEPT !.events = list, !.ei = 1, !.seq = 1,
                                              !.manifestEvents = <<>>,
                                              !.manifestSrc = <<>>], clock)]
                /\ trace' = [trace EXCEPT
                               ![p].empty = IF Len(list) = 0 THEN @ \cup {user.user_id} ELSE @,
                               ![p].loaded =
                                  IF Len(list) = 0 THEN @
                                  ELSE @ \cup {[user |-> user.user_id,
                                                ids |-> {list[i].id : i \in DOMAIN list}]},
                               ![p].cached =
                                  @ \cup {<<list[i].id, list[i].audio_url>> :
                                            i \in {j \in DOMAIN list : list[j].processed}}]
           \/ \* the store answers with an error: data is null
              /\ inv' = [inv EXCEPT ![p] =
                           IF SkipForNoEvents(TRUE, 0)
                           THEN NextUserRecord(r)
                           ELSE Reject(r, "events_null")]
              /\ trace' = [trace EXCEPT ![p].empty = @ \cup {user.user_id}]
              /\ Fault
           \/ \* the request itself fails
              /\ inv' = [inv EXCEPT ![p] = Reject(r, "events_read")]
              /\ UNCHANGED trace
              /\ Fault
        /\ UNCHANGED <<env, users, events, objects, clock, rendered, runs, adds>>

\* lines 105-112 and 140-164: the head of the event loop
EventStep(p) ==
    LET r == inv[p]
        event == Event(r)
        r1 == [r EXCEPT !.publicUrl = event.audio_url]
    IN  /\ r.pc = "event"
        /\ IF NeedsAudio(event)
           THEN /\ inv' = [inv EXCEPT ![p] = [r1 EXCEPT !.pc = "synth"]]
                /\ trace' = [trace EXCEPT ![p].synth = @ \cup {event.id},
                                          ![p].synthLog = Append(@, event.id)]
           ELSE /\ inv' = [inv EXCEPT ![p] = PushEvent(r1, clock)]
                /\ UNCHANGED trace
        /\ UNCHANGED <<env, users, events, objects, clock, rendered, runs, adds, faults>>

\* lines 112-121 and 202-220: generateAzureAudio settles
SynthDone(p) ==
    LET r == inv[p]
        event == Event(r)
    IN  /\ r.pc = "synth"
        /\ \/ /\ env.AZURE_KEY # "" /\ env.AZURE_REGION # ""
              /\ inv' = [inv EXCEPT ![p] =
                           [r EXCEPT !.pc = "put",
                                     !.audioBuffer = [kind |-> "audio", text |-> event.message],
                                     !.mp3Filename = Mp3Filename(User(r).user_id, r.seq)]]
              /\ trace' = [trace EXCEPT ![p].put = @ \cup {event.id}]
              /\ NoFault
           \/ \* the promise is rejected (always, without key or region):
              \* the catch of line 134
              /\ inv' = [inv EXCEPT ![p] = NextEvent(r, clock)]
              /\ trace' = [trace EXCEPT ![p].failed = @ \cup {event.id}]
              /\ IF env.AZURE_KEY = "" \/ env.AZURE_REGION = "" THEN NoFault ELSE Fault
        /\ UNCHANGED <<env, users, events, objects, clock, rendered, runs, adds>>

\* lines 115-132: putObject of the audio settles
PutDone(p) ==
    LET r == inv[p]
        event == Event(r)
    IN  /\ r.pc = "put"
        /\ \/ /\ env.SPACES_BUCKET # "" /\ env.SPACES_SECRET # ""
              /\ objects' = [k \in DOMAIN objects \cup {r.mp3Filename} |->
                               IF k = r.mp3Filename THEN r.audioBuffer ELSE objects[k]]
              /\ inv' = [inv EXCEPT ![p] =
                           [r EXCEPT !.pc = "update",
                                     !.publicUrl = PublicUrl(env, r.mp3Filename)]]
              /\ trace' = [trace EXCEPT ![p].update = @ \cup {event.id}]
              /\ rendered' = rendered \cup {event.id}
              /\ NoFault
           \/ \* the promise is rejected (always, without bucket or secret):
              \* the catch of line 134
              /\ inv' = [inv EXCEPT ![p] = NextEvent(r, clock)]
              /\ trace' = [trace EXCEPT ![p].failed = @ \cup {event.id}]
              /\ UNCHANGED <<objects, rendered>>
              /\ IF env.SPACES_BUCKET = "" \/ env.SPACES_SECRET = "" THEN NoFault ELSE Fault
        /\ UNCHANGED <<env, users, events, clock, runs, adds>>

\* lines 129-137 and 140-164: the update of the event row settles
UpdateDone(p) ==
    LET r == inv[p]
        event == Event(r)
    IN  /\ r.pc = "update"
        /\ \/ \* the row is updated
              /\ events' = [events EXCEPT ![event.id] =
                              [@ EXCEPT !.audio_url = r.publicUrl, !.processed = TRUE]]
              /\ inv' = [inv EXCEPT ![p] = PushEvent(r, clock)]
              /\ UNCHANGED trace
              /\ NoFault
           \/ \* the store answers with an error, which the code does not read
              /\ inv' = [inv EXCEPT ![p] = PushEvent(r, clock)]
              /\ trace' = [trace EXCEPT ![p].updFailed = @ \cup {event.id}]
              /\ UNCHANGED events
              /\ Fault
           \/ \* the request itself fails: the catch of line 134
              /\ inv' = [inv EXCEPT ![p] = NextEvent(r, clock)]
              /\ trace' = [trace EXCEPT ![p].updFailed = @ \cup {event.id}]
              /\ UNCHANGED events
              /\ Fault
        /\ UNCHANGED <<env, users, objects, clock, rendered, runs, adds>>

\* lines 186-197: putObject of the manifest settles
PublishDone(p) ==
    LET r == inv[p]
        user == User(r)
        jsonFilename == JsonFilename(user.user_id)
    IN  /\ r.pc = "publish"
        /\ \/ /\ env.SPACES_BUCKET # "" /\ env.SPACES_SECRET # ""
              /\ objects' = [k \in DOMAIN objects \cup {jsonFilename} |->
                               IF k = jsonFilename THEN r.payload ELSE objects[k]]
              /\ inv' = [inv EXCEPT ![p] =
                           NextUserRecord(
                             [r EXCEPT !.results =
                                 Append(@, [user |-> user.user_id,
                                            manifest |-> jsonFilename,
                                            utc_fetch |-> r.payload.settings.fetch_time])])]
              /\ trace' = [trace EXCEPT ![p].publish = @ \cup {user.user_id},
                                        ![p].published = @ \cup {user.user_id},
                                        ![p].manifests = Append(@, jsonFilename)]
              /\ NoFault
           \/ \* the promise is rejected (always, without bucket or secret),
              \* outside any try block
              /\ inv' = [inv EXCEPT ![p] = Reject(r, "publish")]
              /\ trace' = [trace EXCEPT ![p].publish = @ \cup {user.user_id}]
              /\ UNCHANGED objects
              /\ IF env.SPACES_BUCKET = "" \/ env.SPACES_SECRET = "" THEN NoFault ELSE Fault
        /\ UNCHANGED <<env, users, events, clock, rendered, runs, adds>>

\* line 199: the user loop is over
Return(p) ==
    LET r == inv[p]
    IN  /\ r.pc = "user"
        /\ r.ui > Len(r.users)
        /\ inv' = [inv EXCEPT ![p] =
                     [r EXCEPT !.pc = "done",
                               !.ret = [processed |-> Len(r.results), details |-> r.results]]]
        /\ UNCHANGED <<env, users, events, objects, clock, trace, rendered, runs, adds, faults>>

----------------------------------------------------------------------------
(* The environment *)

\* the application inserts an event row
AddEvent(id) ==
    /\ adds < MaxAdds
    /\ \A p \in Procs : Quiet(p)
    /\ id \in AddableIds
    /\ id \notin DOMAIN events
    /\ adds' = adds + 1
    /\ events' = [k \in DOMAIN events \cup {id} |->
                    IF k = id THEN PoolRow(id) ELSE events[k]]
    /\ UNCHANGED <<env, users, objects, clock, inv, trace, rendered, runs, faults>>

----------------------------------------------------------------------------
(* Specifications *)

Step(p) ==
    \/ \E a \in ArgChoices, t \in ClockChoices : Start(p, a, t)
    \/ UsersLoaded(p)
    \/ NextUser(p)
    \/ EventsLoaded(p)
    \/ EventStep(p)
    \/ SynthDone(p)
    \/ PutDone(p)
    \/ UpdateDone(p)
    \/ PublishDone(p)
    \/ Return(p)

\* invocations that do not overlap: one at a time
Next ==
    \/ Step(1)
    \/ \E id \in EventIds : AddEvent(id)

Spec == Init /\ [][Next]_vars

\* the well-formed deployment with the main store
InitOverlap ==
    /\ Init
    /\ env = FullEnv
    /\ users = <<User1, User2>>
    /\ DOMAIN events = MainStore

\* the triggers that meet on the first user: the first invocation is the
\* schedule's at the user's fetch hour, the second one a manual trigger for
\* the user, at the same instant; each is one call of main
OverlapArgs == <<[trigger |-> "schedule"], [user_id |-> "u1"]>>
OverlapClocks == {DAY + 13 * HOUR + 20 * MINUTE + 17}

\* invocations that overlap: main takes no lock, so the awaits of two
\* invocations interleave in any order
StepOverlap(p) ==
    \/ \E t \in OverlapClocks : inv[p].pc = "idle" /\ Start(p, OverlapArgs[p], t)
    \/ UsersLoaded(p)
    \/ NextUser(p)
    \/ EventsLoaded(p)
    \/ EventStep(p)
    \/ SynthDone(p)
    \/ PutDone(p)
    \/ UpdateDone(p)
    \/ PublishDone(p)
    \/ Return(p)

NextOverlap == \E p \in Procs : StepOverlap(p)

SpecOverlap == InitOverlap /\ [][NextOverlap]_vars

----------------------------------------------------------------------------
(* Vocabulary of the properties *)

\* the invocation was called with {user_id: U} and U is this user
ForcedFor(args, user) == "user_id" \in DOMAIN args /\ args.user_id = user.user_id

\* the user has a local hour at instant t, fetch_time has a leading hour,
\* and the two are the same number
LocalHourIsTarget(user, t) ==
    LET h == HourOf(SetZone(t, user.timezone))
        target == TargetFetchHour(user)
    IN  h # NaN /\ target # NaN /\ Val(h) = Val(target)

HasTimeSettings(user) == user.fetch_time # "" /\ user.timezone # ""

\* the user loop of invocation p has taken its decision on the i-th user
Decided(p, i) == inv[p].ui > i \/ (inv[p].ui = i /\ inv[p].pc # "user")

Range(f) == {f[i] : i \in DOMAIN f}

----------------------------------------------------------------------------
(* C1 *)

\* C1: a user record with fetch_time and timezone passes the trigger gate
\* (its events query is sent) if and only if the invocation is forced for
\* that user or the user's local hour is the hour parsed from fetch_time.
C1_GateIffForcedOrHourMatch ==
    \A p \in Procs : \A i \in 1..Len(inv[p].users) :
        LET user == inv[p].users[i]
        IN  (Decided(p, i) /\ HasTimeSettings(user)) =>
               ((user.user_id \in trace[p].gate) <=>
                   (ForcedFor(inv[p].args, user) \/ LocalHourIsTarget(user, clock)))

\* a forced user is past the gate at an hour that is not its fetch hour
C1_Witness ==
    \E p \in Procs :
        /\ inv[p].pc = "events"
        /\ ForcedFor(inv[p].args, User(inv[p]))
        /\ ~LocalHourIsTarget(User(inv[p]), clock)
        /\ User(inv[p]).user_id \in trace[p].gate

----------------------------------------------------------------------------
(* C2 *)

\* C2: in an invocation with argument {user_id: U}, U passes the gate
\* whatever its local hour, and any other user V that passes the gate has
\* its local hour equal to its fetch hour.
C2_ForcedFlagOnlyForItsUser ==
    \A p \in Procs : \A i \in 1..Len(inv[p].users) :
        LET user == inv[p].users[i]
        IN  ("user_id" \in DOMAIN inv[p].args /\ Decided(p, i) /\ HasTimeSettings(user)) =>
               /\ (user.user_id = inv[p].args.user_id) => user.user_id \in trace[p].gate
               /\ (user.user_id # inv[p].args.user_id /\ user.user_id \in trace[p].gate)
                     => LocalHourIsTarget(user, clock)

\* U = u2 is forced at an hour that is not its fetch hour and passes; V = u1
\* has passed before it, on its own fetch hour
C2_Witness ==
    \E p \in Procs :
        /\ "user_id" \in DOMAIN inv[p].args
        /\ inv[p].args.user_id = "u2"
        /\ inv[p].pc = "events" /\ inv[p].ui = 2
        /\ ~LocalHourIsTarget(inv[p].users[2], clock)
        /\ LocalHourIsTarget(inv[p].users[1], clock)
        /\ trace[p].gate = {"u1", "u2"}

----------------------------------------------------------------------------
(* C3 *)

\* the manifest object published for a user, NoBody when there is none
ManifestOf(objs, uid) ==
    IF JsonFilename(uid) \in DOMAIN objs THEN objs[JsonFilename(uid)] ELSE NoBody

\* C3: for an event loaded with processed = true the run calls neither
\* synthesis nor upload nor update, the row keeps the audio_url it was
\* loaded with, and the manifest entry built for it (in the list and in
\* the payload sent to the bucket) carries exactly that audio_url.
C3_CachedEventUntouched ==
    \A p \in Procs : \A c \in trace[p].cached :
        /\ c[1] \notin trace[p].synth \cup trace[p].put \cup trace[p].update
        /\ events[c[1]].processed
        /\ events[c[1]].audio_url = c[2]
        /\ \A k \in DOMAIN inv[p].manifestSrc :
              inv[p].manifestSrc[k] = c[1] =>
                 /\ inv[p].manifestEvents[k].audio_url = c[2]
                 /\ inv[p].pc = "publish" => inv[p].payload.events[k].audio_url = c[2]

\* a manifest is about to be published that holds an event loaded as processed
C3_Witness ==
    \E p \in Procs :
        /\ inv[p].pc = "publish"
        /\ \E c \in trace[p].cached : c[1] \in Range(inv[p].manifestSrc)

----------------------------------------------------------------------------
(* C4 *)

\* C4: once the audio of an event has been synthesized and uploaded in some
\* run, no later run calls synthesis for that event.
C4_RenderedNeverResynthesized ==
    \A p \in Procs : trace[p].synth \cap trace[p].renderedAtStart = {}

\* C4 as amended: once the row of an event has been stored with
\* processed = true, no later run calls synthesis for that event.
C4_ProcessedNeverResynthesized ==
    \A p \in Procs : \A id \in trace[p].processedAtStart :
        /\ id \notin trace[p].synth
        /\ id \in DOMAIN events /\ events[id].processed

\* a later run has published the manifest of a user whose events were all
\* processed when it started, and has called no synthesis
C4_Witness ==
    \E p \in Procs :
        /\ inv[p].pc = "done"
        /\ trace[p].synth = {}
        /\ \E id \in trace[p].processedAtStart :
              /\ id \in trace[p].renderedAtStart
              /\ events[id].user_id \in trace[p].published

----------------------------------------------------------------------------
(* C5 *)

\* the ids of the loaded events whose synthesis and upload did not fail,
\* in load order
NonFailingIds(p) ==
    LET Keep(id) == id \notin trace[p].failed
    IN  SelectSeq([i \in DOMAIN inv[p].events |-> inv[p].events[i].id], Keep)

\* C5: whatever subset of the loaded events fails in synthesis or upload,
\* the manifest sent to the bucket holds exactly the other events, in load
\* order, numbered 1..k, with event_count = k.
C5_ManifestHoldsNonFailingEvents ==
    \A p \in Procs :
        inv[p].pc = "publish" =>
            /\ inv[p].manifestSrc = NonFailingIds(p)
            /\ \A k \in DOMAIN inv[p].payload.events : inv[p].payload.events[k].sequence = k
            /\ inv[p].payload.event_count = Len(NonFailingIds(p))
            /\ Len(inv[p].payload.events) = inv[p].payload.event_count

----------------------------------------------------------------------------
(* C6 *)

\* C6: a user that passed the gate and whose events query came back empty
\* or without data has no manifest upload called in the run, keeps the
\* manifest object it had when the run started, and is not in the details.
C6_EmptyListPublishesNothing ==
    \A p \in Procs : \A u \in trace[p].empty :
        /\ u \in trace[p].gate
        /\ u \notin trace[p].publish
        /\ ManifestOf(objects, u) = ManifestOf(trace[p].objectsAtStart, u)
        /\ \A k \in DOMAIN inv[p].results : inv[p].results[k].user # u
        /\ inv[p].pc = "done" =>
              \A k \in DOMAIN inv[p].ret.details : inv[p].ret.details[k].user # u

\* a run is over in which a user with a published manifest had no events
C6_Witness ==
    \E p \in Procs :
        /\ inv[p].pc = "done"
        /\ "details" \in DOMAIN inv[p].ret
        /\ \E u \in trace[p].empty : ManifestOf(trace[p].objectsAtStart, u) # NoBody

----------------------------------------------------------------------------
(* C7 *)

\* invocation p is inside the event loop of a user, or sending its manifest
InUserRun(p) == inv[p].pc \in {"event", "synth", "put", "update", "publish"}

LoadedIds(p) == {inv[p].events[i].id : i \in DOMAIN inv[p].events}

\* C7: an event whose synthesis and upload succeeded and whose update
\* failed (an error result, or a rejected request) has an entry in the
\* manifest of the run, with the public URL of the object just uploaded.
C7_UpdateFailureKeepsEvent ==
    \A p \in Procs : \A id \in trace[p].updFailed :
        (InUserRun(p) /\ id \in LoadedIds(p)) =>
            \E k \in DOMAIN inv[p].manifestSrc :
                /\ inv[p].manifestSrc[k] = id
                /\ inv[p].manifestEvents[k].audio_url =
                      PublicUrl(env, Mp3Filename(User(inv[p]).user_id,
                                                 inv[p].manifestEvents[k].sequence))

----------------------------------------------------------------------------
(* C8 *)

\* C8: when the upload of a user's manifest fails, the invocation is not
\* aborted: it goes on with the next user and main returns a result.
C8_PublishFailureDoesNotAbort ==
    \A p \in Procs :
        (trace[p].publish \ trace[p].published # {}) =>
            /\ inv[p].pc # "rejected"
            /\ \A i \in 1..Len(inv[p].users) :
                  inv[p].users[i].user_id \in trace[p].publish \ trace[p].published
                     => inv[p].ui > i

----------------------------------------------------------------------------
(* C9 *)

\* s is an HH:MM time of day: two digits, a colon, two digits, 00:00-23:59
IsHHMM(s) ==
    LET cs == Chars(s)
    IN  /\ Len(cs) = 5
        /\ IsDigit(cs[1]) /\ IsDigit(cs[2]) /\ cs[3] = ":" /\ IsDigit(cs[4]) /\ IsDigit(cs[5])
        /\ DigitVal(cs[1]) * 10 + DigitVal(cs[2]) <= 23
        /\ DigitVal(cs[4]) * 10 + DigitVal(cs[5]) <= 59

\* C9: an event whose start_time or end_time is not an HH:MM value gets no
\* manifest entry, and the run goes on with the other events of the user.
C9_MalformedTimeExcluded ==
    \A p \in Procs :
        /\ inv[p].abort # "event_time"
        /\ \A k \in DOMAIN inv[p].manifestSrc :
              /\ IsHHMM(events[inv[p].manifestSrc[k]].start_time)
              /\ IsHHMM(events[inv[p].manifestSrc[k]].end_time)

----------------------------------------------------------------------------
(* C10 *)

\* C10: a user whose timezone is not a zone identifier is skipped, forced
\* or not: no synthesis, upload or update for its events, no manifest
\* upload, no entry in the details; and the invocation goes on with the
\* other users.
C10_InvalidZoneUserSkipped ==
    \A p \in Procs : \A i \in 1..Len(inv[p].users) :
        LET user == inv[p].users[i]
        IN  (HasTimeSettings(user) /\ ~IsValidZone(user.timezone)) =>
               /\ user.user_id \notin trace[p].publish
               /\ \A id \in trace[p].synth \cup trace[p].put \cup trace[p].update :
                     events[id].user_id # user.user_id
               /\ \A k \in DOMAIN inv[p].results : inv[p].results[k].user # user.user_id
               /\ ~(inv[p].pc = "rejected" /\ inv[p].ui = i)

----------------------------------------------------------------------------
(* C11 *)

\* C11: a user whose fetch_time has no leading hour that parses is skipped,
\* forced or not: no manifest upload is called for it and it gets no entry
\* in the details, and the parse error does not end the invocation.
C11_UnparsableFetchTimeSkipped ==
    \A p \in Procs : \A i \in 1..Len(inv[p].users) :
        LET user == inv[p].users[i]
        IN  (HasTimeSettings(user) /\ IsNaN(TargetFetchHour(user))) =>
               /\ user.user_id \notin trace[p].publish
               /\ \A k \in DOMAIN inv[p].results : inv[p].results[k].user # user.user_id
               /\ ~(inv[p].ui = i /\ inv[p].abort = "fetch_time")

----------------------------------------------------------------------------
(* C12 *)

\* the eight configuration values the program reads
ConfigComplete(e) ==
    /\ e.SUPABASE_URL # "" /\ e.SUPABASE_KEY # ""
    /\ e.SPACES_ENDPOINT # <<>> /\ e.SPACES_KEY # ""
    /\ e.SPACES_SECRET # "" /\ e.SPACES_BUCKET # ""
    /\ e.AZURE_KEY # "" /\ e.AZURE_REGION # ""

\* C12: when a configuration value is missing, an invocation of main ends
\* in a returned {error} without any external call: the user_settings
\* query is never sent, and so is no events query, synthesis, upload or
\* update.
C12_MissingConfigReturnsErrorBeforeAnyCall ==
    \A p \in Procs :
        (~ConfigComplete(env) /\ inv[p].pc # "idle") =>
            /\ inv[p].pc = "done"
            /\ "error" \in DOMAIN inv[p].ret
            /\ trace[p].gate = {} /\ trace[p].synthLog = <<>>
            /\ trace[p].put = {} /\ trace[p].update = {} /\ trace[p].publish = {}

----------------------------------------------------------------------------
(* C13 *)

\* no external call has been made for any user by invocation p
NoUserWork(p) ==
    /\ trace[p].gate = {} /\ trace[p].synthLog = <<>>
    /\ trace[p].put = {} /\ trace[p].update = {} /\ trace[p].publish = {}
    /\ inv[p].results = <<>>

\* C13: a failed user_settings read ends the invocation in a returned
\* {error: message}, with no user processed; a failed events read of one
\* user does not end the invocation, which goes on with the next user.
C13_ReadFailures ==
    \A p \in Procs :
        /\ inv[p].abort # "users_read"
        /\ (inv[p].pc = "done" /\ "error" \in DOMAIN inv[p].ret) => NoUserWork(p)
        /\ inv[p].abort # "events_read"

----------------------------------------------------------------------------
(* C14 *)

\* the user is to be skipped at instant t: a time setting is missing, or
\* the run is not forced for it and its local hour is not its fetch hour
SkippedBySettings(args, user, t) ==
    \/ ~HasTimeSettings(user)
    \/ (~ForcedFor(args, user) /\ ~LocalHourIsTarget(user, t))

\* C14: a user skipped for a missing time setting, or for an hour that does
\* not match in a run not forced for it, has no effect in the run: its
\* events are not queried, nothing is synthesized, uploaded or updated for
\* it, its rows and its manifest object stay as they were when the run
\* started, it has no entry in the details; and the user loop is past it.
C14_SkippedUserHasNoEffect ==
    \A p \in Procs : \A i \in 1..Len(inv[p].users) :
        LET user == inv[p].users[i]
        IN  (Decided(p, i) /\ SkippedBySettings(inv[p].args, user, clock)) =>
               /\ user.user_id \notin trace[p].gate \cup trace[p].empty \cup trace[p].publish
               /\ \A id \in Range(trace[p].synthLog) \cup trace[p].put \cup trace[p].update :
                     events[id].user_id # user.user_id
               /\ \A id \in DOMAIN events :
                     events[id].user_id = user.user_id =>
                        (events[id].processed <=> id \in trace[p].processedAtStart)
               /\ ManifestOf(objects, user.user_id)
                     = ManifestOf(trace[p].objectsAtStart, user.user_id)
               /\ \A k \in DOMAIN inv[p].results : inv[p].results[k].user # user.user_id
               /\ inv[p].ui > i

\* a run is over in which the first user was skipped on its hour and the
\* second user, after it, had its manifest published
C14_Witness ==
    \E p \in Procs :
        /\ inv[p].pc = "done"
        /\ Len(inv[p].users) = 2
        /\ HasTimeSettings(inv[p].users[1])
        /\ SkippedBySettings(inv[p].args, inv[p].users[1], clock)
        /\ trace[p].published = {inv[p].users[2].user_id}

----------------------------------------------------------------------------
(* C15 *)

\* C15: a manifest is sent to the bucket only when the event loop of the
\* user is over, holding every entry built in it; and in an invocation that
\* has returned {processed, details}, the manifest uploads that succeeded
\* are one per user of the details, in order, each under the key
\* {user_id}_status.json, no user twice, and processed is their number.
C15_OneWholeManifestPerUser ==
    \A p \in Procs :
        /\ inv[p].pc = "publish" =>
              /\ inv[p].ei > Len(inv[p].events)
              /\ inv[p].payload.events = inv[p].manifestEvents
              /\ inv[p].payload.event_count = Len(inv[p].manifestEvents)
              /\ Len(inv[p].manifestEvents) + Cardinality(
                    {id \in LoadedIds(p) : id \notin Range(inv[p].manifestSrc)})
                    = Len(inv[p].events)
        /\ (inv[p].pc = "done" /\ "processed" \in DOMAIN inv[p].ret) =>
              /\ inv[p].ret.processed = Len(inv[p].ret.details)
              /\ inv[p].ret.processed = Len(trace[p].manifests)
              /\ \A k \in DOMAIN inv[p].ret.details :
                    /\ trace[p].manifests[k] = inv[p].ret.details[k].user \o "_status.json"
                    /\ inv[p].ret.details[k].manifest = trace[p].manifests[k]
                    /\ trace[p].manifests[k] \in DOMAIN objects
              /\ \A j, k \in DOMAIN trace[p].manifests :
                    j # k => trace[p].manifests[j] # trace[p].manifests[k]

\* an invocation has returned after publishing the manifests of two users
C15_Witness ==
    \E p \in Procs :
        /\ inv[p].pc = "done"
        /\ "processed" \in DOMAIN inv[p].ret
        /\ inv[p].ret.processed = 2
        /\ Len(trace[p].manifests) = inv[p].ret.processed

----------------------------------------------------------------------------
(* C16 *)

\* minutes of the day of an HH:MM string, read off its digits
MinutesOfDay(s) ==
    LET cs == Chars(s)
    IN  (DigitVal(cs[1]) * 10 + DigitVal(cs[2])) * 60
           + DigitVal(cs[4]) * 10 + DigitVal(cs[5])

\* the HH:MM string of a number of minutes, reduced modulo 24 hours
HHMMOfMinutes(n) == Pad2((n % (24 * 60)) \div 60) \o ":" \o Pad2(n % 60)

\* the local fetch_time of the user shifted by minus the offset of its zone
ExpectedUtcFetch(user) ==
    HHMMOfMinutes(MinutesOfDay(user.fetch_time) - ZoneOffset(user.timezone) \div 60)

\* C16: for a user in a fixed-offset zone, settings.fetch_time of the
\* manifest object in the bucket is the local fetch_time shifted by minus
\* the offset, modulo 24 hours, and utc_fetch of the user's details entry
\* is the same string.
C16_PublishedFetchTimeIsUtc ==
    \A p \in Procs : \A k \in DOMAIN inv[p].results :
        \E i \in DOMAIN inv[p].users :
            LET user == inv[p].users[i]
            IN  /\ user.user_id = inv[p].results[k].user
                /\ IsValidZone(user.timezone)
                /\ inv[p].results[k].utc_fetch = ExpectedUtcFetch(user)
                /\ ManifestOf(objects, user.user_id).settings.fetch_time
                      = ExpectedUtcFetch(user)

\* the manifests of a user at offset -6 with local fetch time 20:00, whose
\* shifted time wraps past midnight, and of a user at offset 0 are published
C16_Witness ==
    \E p \in Procs :
        /\ inv[p].pc = "done"
        /\ Len(inv[p].results) = 2
        /\ inv[p].users[1].fetch_time = "20:00"
        /\ ZoneOffset(inv[p].users[1].timezone) = 0 - 6 * HOUR
        /\ inv[p].results[1].utc_fetch = "02:00"
        /\ inv[p].results[2].utc_fetch = "14:30"

----------------------------------------------------------------------------
(* C17 *)

\* Unix seconds of local midnight of the calendar date that instant t falls
\* on in a zone at the given offset
LocalMidnight(t, offset) == ((t + offset) \div DAY) * DAY - offset

\* Unix seconds of an HH:MM string on the local date of instant t
ExpectedAlert(t, zone, s) ==
    LocalMidnight(t, ZoneOffset(zone)) + MinutesOfDay(s) * 60

\* C17: every manifest entry built for a user in a fixed-offset zone has
\* alertStart and alertEnd equal to the Unix seconds of the event's
\* start_time and end_time on the user's local date at the instant of the
\* run: local midnight + HH*3600 + MM*60, from the instant and the zone alone.
C17_AlertTimesAreLocalWallClock ==
    \A p \in Procs : \A k \in DOMAIN inv[p].manifestEvents :
        LET user == User(inv[p])
            event == events[inv[p].manifestSrc[k]]
            entry == inv[p].manifestEvents[k]
        IN  /\ IsValidZone(user.timezone)
            /\ entry.alertStart = Num(ExpectedAlert(clock, user.timezone, event.start_time))
            /\ entry.alertEnd = Num(ExpectedAlert(clock, user.timezone, event.end_time))
            /\ inv[p].pc = "publish" => inv[p].payload.events[k] = entry

\* the manifest of a user at offset -6 is about to be sent with an entry
\* for the event of 09:00-09:30 local time, which is 15:00-15:30 UTC
C17_Witness ==
    \E p \in Procs :
        /\ inv[p].pc = "publish"
        /\ ZoneOffset(User(inv[p]).timezone) = 0 - 6 * HOUR
        /\ \E k \in DOMAIN inv[p].payload.events :
              /\ events[inv[p].manifestSrc[k]].start_time = "09:00"
              /\ inv[p].payload.events[k].alertStart = Num(DAY + 15 * HOUR)
              /\ inv[p].payload.events[k].alertEnd = Num(DAY + 15 * HOUR + 30 * MINUTE)

----------------------------------------------------------------------------
(* C18 *)

\* C18: in every state of the events table, a row with processed = true
\* has an audio_url whose object is an audio object in the bucket, uploaded
\* for that event after its synthesis succeeded; a row whose synthesis or
\* upload failed in a run is as it was when the run loaded it: not
\* processed, without audio_url.
C18_ProcessedRowHasUploadedAudio ==
    /\ \A id \in DOMAIN events :
          events[id].processed =>
             /\ events[id].audio_url # NoUrl
             /\ events[id].audio_url.path \in DOMAIN objects
             /\ objects[events[id].audio_url.path].kind = "audio"
             /\ id \in rendered
    /\ \A p \in Procs :
          /\ \A id \in trace[p].update : id \in trace[p].put /\ id \in rendered
          /\ \A id \in trace[p].put : id \in trace[p].synth
          /\ \A id \in trace[p].failed :
                /\ id \notin trace[p].update
                /\ ~events[id].processed
                /\ events[id].audio_url = NoUrl

\* in one run an event was marked processed and another one failed
C18_Witness ==
    \E p \in Procs :
        /\ inv[p].pc = "done"
        /\ trace[p].failed # {}
        /\ \E id \in trace[p].update : events[id].processed

----------------------------------------------------------------------------
(* C19 *)

\* C19: in one invocation synthesis is called at most once for an event: an
\* event whose synthesis or upload failed is not tried again, and an event
\* loaded with processed = true is not synthesized.
C19_OneSynthesisPerEventPerRun ==
    \A p \in Procs :
        /\ \A j, k \in DOMAIN trace[p].synthLog :
              j # k => trace[p].synthLog[j] # trace[p].synthLog[k]
        /\ \A c \in trace[p].cached : c[1] \notin Range(trace[p].synthLog)
        /\ trace[p].failed \subseteq Range(trace[p].synthLog)

\* a run is over in which the synthesis of one event failed, another event
\* was synthesized after it, and a third one was loaded as processed
C19_Witness ==
    \E p \in Procs :
        /\ inv[p].pc = "done"
        /\ Len(trace[p].synthLog) > 1
        /\ trace[p].synthLog[1] \in trace[p].failed
        /\ trace[p].cached # {}

----------------------------------------------------------------------------
(* C20 *)

\* C20: the object under the audio_url of a processed row is the audio
\* synthesized from the message of that row, and no two entries of a
\* manifest sent to the bucket carry the same audio_url.
C20_AudioBelongsToItsEvent ==
    /\ \A id \in DOMAIN events :
          (events[id].processed /\ events[id].audio_url.path \in DOMAIN objects) =>
             objects[events[id].audio_url.path] =
                [kind |-> "audio", text |-> events[id].message]
    /\ \A p \in Procs :
          inv[p].pc = "publish" =>
             \A j, k \in DOMAIN inv[p].payload.events :
                j # k => inv[p].payload.events[j].audio_url
                            # inv[p].payload.events[k].audio_url

----------------------------------------------------------------------------
(* C21 *)

\* invocation p is through with the user of the i-th record: the user loop
\* is past it, or main was left while on it
ThroughWith(p, i) ==
    inv[p].ui > i \/ (inv[p].ui = i /\ inv[p].pc = "rejected")

\* C21: a user whose loaded event list has at least one row gets its
\* manifest published and an entry in the details, however many of the
\* events fail; when the synthesis or upload of every loaded event failed,
\* the manifest in the bucket has event_count 0 and no events.
C21_NonEmptyListPublishesManifest ==
    \A p \in Procs : \A l \in trace[p].loaded : \A i \in DOMAIN inv[p].users :
        (inv[p].users[i].user_id = l.user /\ ThroughWith(p, i)) =>
            /\ l.user \in trace[p].published
            /\ \E k \in DOMAIN inv[p].results : inv[p].results[k].user = l.user
            /\ l.ids \subseteq trace[p].failed =>
                  /\ ManifestOf(objects, l.user).event_count = 0
                  /\ ManifestOf(objects, l.user).events = <<>>

----------------------------------------------------------------------------
(* C22 *)

\* the iteration of invocation p on the k-th event of its list has passed
\* the test of the processed flag
PastFlagTest(p, k) ==
    inv[p].ei > k \/ (inv[p].ei = k /\ inv[p].pc \in {"synth", "put", "update"})

\* the keys under which the audio of an event of the user can be uploaded
AudioKeys(uid) == {Mp3Filename(uid, seq) : seq \in 1..EVENT_LIMIT}

\* C22: with overlapping invocations, an invocation that read an event with
\* processed = false calls synthesis for it whatever the row has become in
\* the store since (so two invocations that both read it so both synthesize
\* it); and once both have returned, an event that both uploaded and that
\* an update has marked is processed, with the one audio_url of one of
\* those uploads, whose object is in the bucket.
C22_NoLockOnProcessedFlag ==
    /\ \A p \in Procs : \A k \in DOMAIN inv[p].events :
          (InUserRun(p) /\ PastFlagTest(p, k) /\ ~inv[p].events[k].processed) =>
             inv[p].events[k].id \in trace[p].synth
    /\ (\A p \in Procs : inv[p].pc = "done") =>
          \A id \in DOMAIN events :
             ((\A p \in Procs : id \in trace[p].update)
                 /\ (\E p \in Procs : id \notin trace[p].updFailed)) =>
                /\ events[id].processed
                /\ events[id].audio_url # NoUrl
                /\ events[id].audio_url.path \in AudioKeys(events[id].user_id)
                /\ events[id].audio_url.path \in DOMAIN objects

\* both invocations read the first event of the user as not processed; one
\* has marked it processed, and the other is synthesizing it all the same
C22_Witness ==
    \E p, q \in Procs :
        /\ p # q
        /\ inv[q].pc = "synth"
        /\ ~Event(inv[q]).processed
        /\ events[Event(inv[q]).id].processed
        /\ Event(inv[q]).id \in trace[p].update \ trace[p].updFailed
        /\ InUserRun(p)

====
